---- MODULE Spec2Model ----
(***************************************************************************)
(* Model of the literature-review pipeline:                                *)
(*   step3_batch_analyze/analyze.py    batch orchestrator + extraction     *)
(*                                     client (call_llm, process_one, main)*)
(*   step3_batch_analyze/summarize.py  aggregation loader and statistics   *)
(*   step4_outline/deep_analysis.py    second loader (safe_int) + outline  *)
(*                                                                         *)
(* The specifications of the module:                                       *)
(*   Spec      sequential runs of analyze.main over a corpus               *)
(*   SpecE2E   analyze.main on the five-item end-to-end corpus             *)
(*   SpecLLM   call_llm, one request per step                              *)
(*   SpecUnit  process_one applied to one folder in any state              *)
(*   SpecNorm  normalize_category (both copies) on bounded strings         *)
(*   SpecAgg   the two load_all functions and the score-dependent steps    *)
(*             of summarize.main / deep_analysis.main                      *)
(*   SpecTech  normalize_technique / normalize_method on labels            *)
(*   SpecFence the code-fence stripping of call_llm on response contents   *)
(*   SpecOutline the technique grouping of deep_analysis.main              *)
(*   SpecDry   analyze.main --dry-run                                      *)
(*   SpecConc  process_one run by several workers at once                  *)
(***************************************************************************)
EXTENDS Integers, Sequences, FiniteSets, TLC

VARIABLES
    \* ---- analyze.main / process_one (Spec, SpecE2E, SpecUnit) ----
    fs,          \* the corpus: folder index (sorted order) -> folder state
    writes,      \* per folder: how often its analysis.json was written
    pc,          \* position of the current analyze.main run
    pending,     \* pending_folders of the current run
    idx,         \* number of loop iterations completed
    stats,       \* the run's stats dict
    requests,    \* requests.post calls made in the current run
    llmCalls,    \* call_llm invocations made in the current run
    runWrites,   \* analysis.json files written in the current run
    full,        \* current run has neither --limit nor --folder nor --dry-run
    runNo,       \* number of runs started
    prevFull,    \* the previous run was a full run that returned normally
    startTodo,   \* folders with a PDF and no analysis.json when the run began
    startDone,   \* folders with an analysis.json when the run began
    last,        \* what the last process_one call did
    \* ---- call_llm (SpecLLM) ----
    llm,         \* loop state of call_llm
    hist,        \* the responses the service has given so far
    \* ---- normalize_category (SpecNorm) ----
    catIn, catOut,
    \* ---- aggregation (SpecAgg, SpecOutline) ----
    store, agg,
    \* ---- string functions (SpecTech, SpecFence) ----
    pin,         \* the input string
    pout,        \* what the function returned for it
    \* ---- concurrent process_one (SpecConc) ----
    workers      \* per worker: its position in process_one and what it holds

orchVars == <<fs, writes, pc, pending, idx, stats, requests, llmCalls, runWrites, full,
              runNo, prevFull, startTodo, startDone, last>>
llmVars  == <<llm, hist>>
normVars == <<catIn, catOut>>
aggVars  == <<store, agg>>
extVars  == <<pin, pout, workers>>
vars     == <<orchVars, llmVars, normVars, aggVars, extVars>>

(***************************************************************************)
(* Program constants (analyze.py)                                          *)
(***************************************************************************)
MAX_TEXT_CHARS == 30000
MAX_RETRIES    == 3
RETRY_DELAY    == 5
MinTextChars   == 100     \* the literal in `if len(text) < 100`
MarkerLen      == 47      \* len("\n\n[Text truncated ... first portion]")
FailPrefixLen  == 30      \* len("[PDF text extraction failed: ]")

(***************************************************************************)
(* Bounds of the model                                                     *)
(***************************************************************************)
NumFolders == 3      \* folders in the corpus
MaxRuns    == 2      \* consecutive runs of analyze.main
MaxLimit   == 2      \* largest --limit tried
MaxLen     == 3      \* longest category string
NumRecords == 2      \* analysis.json files seen by the aggregators
MaxWords   == 2      \* words in a technique label
MaxCalls   == 2      \* canonicalization calls on one label
NumPapers  == 3      \* analysis.json files seen by the outline generator
MaxPad     == 1      \* whitespace characters around a part of a response
NumWorkers == 2      \* workers running process_one on one folder

Min(a, b) == IF a < b THEN a ELSE b
Max(a, b) == IF a > b THEN a ELSE b

(***************************************************************************)
(* The completion service.  A response is what requests.post gives back:   *)
(* it raises (post = "raise"), or returns a status and a body.  The body   *)
(* fields are read in the order call_llm reads them.                       *)
(***************************************************************************)
GoodResp ==
    [post |-> "ok", status |-> 200, body |-> "dict", choices |-> "list",
     message |-> "dict", content |-> "str", text |-> "object",
     usage |-> "dict", errkey |-> FALSE]

Responses ==
    { GoodResp,
      [GoodResp EXCEPT !.errkey  = TRUE],        \* a JSON object with an "error" key
      [GoodResp EXCEPT !.post    = "raise"],     \* timeout / connection error
      [GoodResp EXCEPT !.status  = 429],
      [GoodResp EXCEPT !.status  = 500],
      [GoodResp EXCEPT !.body    = "notjson"],
      [GoodResp EXCEPT !.body    = "list"],      \* body is JSON but not an object
      [GoodResp EXCEPT !.choices = "missing"],
      [GoodResp EXCEPT !.choices = "empty"],
      [GoodResp EXCEPT !.message = "missing"],
      [GoodResp EXCEPT !.content = "missing"],
      [GoodResp EXCEPT !.content = "null"],
      [GoodResp EXCEPT !.text    = "garbage"],   \* content is not JSON
      [GoodResp EXCEPT !.text    = "array"],     \* content is JSON, not an object
      [GoodResp EXCEPT !.usage   = "null"] }

\* What one iteration of the retry loop does with a response: the branch of
\* the try block it ends in.
Classify(r) ==
    IF r.post = "raise"          THEN "RequestException"
    ELSE IF r.status = 429       THEN "rate_limited"
    ELSE IF r.status # 200       THEN "RequestException"   \* raise_for_status
    ELSE IF r.body = "notjson"   THEN "JSONDecodeError"    \* resp.json()
    ELSE IF r.body = "list"      THEN "TypeError"          \* data["choices"]
    ELSE IF r.choices = "missing" THEN "KeyError"
    ELSE IF r.choices = "empty"  THEN "IndexError"
    ELSE IF r.message = "missing" THEN "KeyError"
    ELSE IF r.content = "missing" THEN "KeyError"
    ELSE IF r.content = "null"   THEN "AttributeError"     \* content.strip()
    ELSE IF r.text = "garbage"   THEN "JSONDecodeError"    \* json.loads
    ELSE IF r.text = "array"     THEN "TypeError"          \* result["_meta"] = ...
    ELSE IF r.usage = "null"     THEN "AttributeError"     \* usage.get
    ELSE "return"

\* the except clauses of call_llm
Caught == {"JSONDecodeError", "RequestException", "KeyError", "IndexError"}

\* the three failure classes of the retry policy
RetryClasses == {"rate_limited"} \cup Caught

call_llm_start ==
    [attempt |-> 0, requests |-> 0, waits |-> <<>>, outcome |-> "running",
     errkey |-> FALSE]

rate_limit_wait_bug(k) == RETRY_DELAY * (k + 1)
\* wait = RETRY_DELAY * (attempt + 2)
rate_limit_wait(k) == RETRY_DELAY * (k + 2)

range_continues_bug(k) == k + 1 <= MAX_RETRIES
\* for attempt in range(MAX_RETRIES): another iteration follows iteration k
range_continues(k) == k + 1 < MAX_RETRIES

\* One iteration of `for attempt in range(MAX_RETRIES)` on response r.
\* outcome: "running" (loop goes on), "success" (return result),
\* "exhausted" (loop ended, the terminal error record is returned),
\* "raised" (an exception no except clause catches leaves call_llm).
\* waits[k+1] is the time.sleep of iteration k (0: the iteration did not sleep).
call_llm_attempt(s, r) ==
    LET k    == s.attempt
        c    == Classify(r)
        more == IF range_continues(k) THEN "running" ELSE "exhausted"
        sent == [s EXCEPT !.requests = @ + 1]
    IN  IF c = "rate_limited" THEN
            [sent EXCEPT !.attempt = k + 1,
                         !.waits   = Append(@, rate_limit_wait(k)),
                         !.outcome = more]
        ELSE IF c = "return" THEN
            [sent EXCEPT !.outcome = "success", !.errkey = r.errkey]
        ELSE IF c \in Caught THEN
            [sent EXCEPT !.attempt = k + 1,
                         !.waits   = Append(@, IF k < MAX_RETRIES - 1
                                               THEN RETRY_DELAY ELSE 0),
                         !.outcome = more]
        ELSE
            [sent EXCEPT !.outcome = "raised"]

\* the record call_llm returns: the parsed object, or after the loop
\* {"error": f"Failed after {MAX_RETRIES} attempts", "filename": filename}
call_llm_result(s) ==
    IF s.outcome = "success"
    THEN [error |-> s.errkey, attempts |-> 0]
    ELSE [error |-> TRUE, attempts |-> MAX_RETRIES]

RECURSIVE call_llm_run(_, _)
call_llm_run(s, rs) ==
    IF s.outcome # "running" \/ rs = <<>> THEN s
    ELSE call_llm_run(call_llm_attempt(s, Head(rs)), Tail(rs))

\* call_llm against a service that answers rs[1], rs[2], ... in turn
call_llm(rs) == call_llm_run(call_llm_start, rs)

RespSeqs == [1..MAX_RETRIES -> Responses]

\* Everything call_llm can do, as process_one sees it: how it ended, the
\* number of requests it sent, whether the returned record has an "error" key.
LLMOutcomes ==
    { [outcome  |-> call_llm(rs).outcome,
       requests |-> call_llm(rs).requests,
       errkey   |-> call_llm_result(call_llm(rs)).error]
      : rs \in RespSeqs }

(***************************************************************************)
(* The corpus.  A folder holds at most one PDF (pdfs[0]) and at most one   *)
(* analysis.json.  A document is what fitz gives for the PDF: it fails to  *)
(* open (msg = len(str(e))), or yields pages of the given lengths; lead    *)
(* and trail count the whitespace at the two ends of the joined text.      *)
(***************************************************************************)
NoResult == [kind |-> "none", file |-> 0, chars |-> 0]
Prior    == [kind |-> "prior", file |-> 0, chars |-> 0]   \* written before the model starts

Doc(fail, msg, pages, lead, trail) ==
    [fail |-> fail, msg |-> msg, pages |-> pages, lead |-> lead, trail |-> trail]
NoDoc   == Doc(FALSE, 0, <<>>, 0, 0)
Scanned == Doc(FALSE, 0, <<40>>, 0, 0)              \* 40 characters of text
Paper   == Doc(FALSE, 0, <<20000, 20000>>, 0, 0)    \* a long paper

RECURSIVE read_pages(_, _)
\* the page loop: text += page.get_text(); cut and stop once over the cap
read_pages(pages, n) ==
    IF pages = <<>> THEN [len |-> n, cut |-> FALSE]
    ELSE IF n + Head(pages) > MAX_TEXT_CHARS
         THEN [len |-> MAX_TEXT_CHARS + MarkerLen, cut |-> TRUE]
         ELSE read_pages(Tail(pages), n + Head(pages))

\* len(extract_text_from_pdf(pdf_path))
extract_text_from_pdf(d) ==
    IF d.fail THEN FailPrefixLen + d.msg
    ELSE LET r == read_pages(d.pages, 0)
         IN  IF r.cut
             THEN IF d.lead >= MAX_TEXT_CHARS
                  THEN MarkerLen - 2       \* strip() also eats the marker's "\n\n"
                  ELSE r.len - d.lead
             ELSE IF d.lead + d.trail >= r.len THEN 0
                  ELSE r.len - d.lead - d.trail

exists_bug(f) == FALSE
\* os.path.exists(os.path.join(folder, OUTPUT_FILENAME))
exists(f) == f.result # NoResult

\* glob.glob(os.path.join(folder, "*.pdf")) is non-empty
has_pdf(f) == f.pdf

too_short_bug(n) == n <= MinTextChars
\* len(text) < 100
too_short(n) == n < MinTextChars

\* process_one on folder f when call_llm, if reached, behaves as o.
\* write = NoResult means nothing is written.
process_one(f, o) ==
    LET n    == extract_text_from_pdf(f.doc)
        none == [status |-> "skipped", write |-> NoResult, requests |-> 0,
                 calls |-> 0, len |-> 0, raised |-> FALSE]
    IN  IF exists(f) THEN none
        ELSE IF ~has_pdf(f) THEN [none EXCEPT !.status = "no_pdf"]
        ELSE IF too_short(n) THEN
            [none EXCEPT !.status = "too_short", !.len = n,
                         !.write  = [kind |-> "too_short", file |-> f.file,
                                     chars |-> n]]
        ELSE IF o.outcome = "raised" THEN
            [none EXCEPT !.status = "raise", !.len = n, !.raised = TRUE,
                         !.calls = 1, !.requests = o.requests]
        ELSE
            [none EXCEPT !.status = IF o.errkey THEN "error" ELSE "success",
                         !.len = n, !.calls = 1, !.requests = o.requests,
                         !.write = [kind  |-> IF o.outcome = "success"
                                              THEN "analysis" ELSE "failed",
                                    file  |-> f.file, chars |-> 0]]

\* what the last process_one call saw and did
NoCall == [called |-> FALSE, pre |-> [pdf |-> FALSE, file |-> 0, doc |-> NoDoc,
                                      result |-> NoResult],
           res |-> process_one([pdf |-> FALSE, file |-> 0, doc |-> NoDoc,
                                result |-> Prior],
                               [outcome |-> "success", requests |-> 1,
                                errkey |-> FALSE])]

(***************************************************************************)
(* analyze.main                                                            *)
(***************************************************************************)
Absent == [pdf |-> FALSE, file |-> 0, doc |-> NoDoc, result |-> NoResult]

\* the state of the folder a path names (--folder may name no folder at all)
FolderAt(i) == IF i \in DOMAIN fs THEN fs[i] ELSE Absent

\* folders: the one --folder names, or every directory of the storage, sorted
Folders(arg) == IF arg = 0 THEN [i \in DOMAIN fs |-> i] ELSE <<arg>>

IsPending(i) == has_pdf(FolderAt(i)) /\ ~exists(FolderAt(i))

\* to_process = has_pdf - already_done
to_process(folders) ==
    Cardinality({k \in DOMAIN folders : has_pdf(FolderAt(folders[k]))})
    - Cardinality({k \in DOMAIN folders : exists(FolderAt(folders[k]))})

\* s[:n] as Python slices it: a negative n drops the last -n elements
Slice(s, n) ==
    IF n >= 0 THEN SubSeq(s, 1, Min(n, Len(s)))
    ELSE SubSeq(s, 1, Max(0, Len(s) + n))

\* limit = args.limit if args.limit > 0 else to_process
run_limit(arg, folders) == IF arg > 0 THEN arg ELSE to_process(folders)

\* pending_folders = [f for f in folders if <pdf> and not <done>][:limit]
pending_folders(folders, limit) == Slice(SelectSeq(folders, IsPending), limit)

ZeroStats == [success |-> 0, skipped |-> 0, no_pdf |-> 0, too_short |-> 0,
              error |-> 0]

Ended == {"idle", "exit1", "dry", "alldone", "done", "crashed", "killed"}

\* main() from its first line to the start of the loop (or to its return)
main_returns_at_bug(key, dry, tp) ==
    IF ~key THEN "exit1" ELSE IF tp = 0 THEN "alldone" ELSE "loop"

\* where main goes after parsing its arguments: sys.exit(1) without the key,
\* return after the counts with --dry-run, return when nothing is to be
\* processed, the loop otherwise
main_returns_at(key, dry, tp) ==
    IF ~key THEN "exit1"
    ELSE IF dry THEN "dry"
    ELSE IF tp = 0 THEN "alldone"
    ELSE "loop"

MainStart(key, dry, limitArg, folderArg) ==
    LET folders == Folders(folderArg)
        tp      == to_process(folders)
    IN  /\ pc \in Ended
        /\ runNo < MaxRuns
        /\ runNo' = runNo + 1
        /\ prevFull' = (full /\ pc \in {"alldone", "done"})
        /\ full' = (key /\ ~dry /\ limitArg = 0 /\ folderArg = 0)
        /\ startTodo' = {i \in DOMAIN fs : fs[i].pdf /\ fs[i].result = NoResult}
        /\ startDone' = {i \in DOMAIN fs : fs[i].result # NoResult}
        /\ stats' = ZeroStats
        /\ idx' = 0
        /\ requests' = 0
        /\ llmCalls' = 0
        /\ runWrites' = 0
        /\ last' = NoCall
        /\ pc' = main_returns_at(key, dry, tp)
        /\ pending' = IF main_returns_at(key, dry, tp) = "loop"
                      THEN pending_folders(folders, run_limit(limitArg, folders))
                      ELSE <<>>
        /\ UNCHANGED <<fs, writes>>

\* one iteration of `for i, folder in enumerate(pending_folders, 1)`
MainStep(o) ==
    /\ pc = "loop"
    /\ idx < Len(pending)
    /\ LET i == pending[idx + 1]
           r == process_one(fs[i], o)
       IN  /\ last' = [called |-> TRUE, pre |-> fs[i], res |-> r]
           /\ requests' = requests + r.requests
           /\ llmCalls' = llmCalls + r.calls
           /\ IF r.raised
              THEN /\ pc' = "crashed"
                   /\ UNCHANGED <<fs, writes, runWrites, stats, idx>>
              ELSE /\ pc' = pc
                   /\ idx' = idx + 1
                   /\ stats' = [stats EXCEPT ![r.status] = @ + 1]
                   /\ IF r.write # NoResult
                      THEN /\ fs' = [fs EXCEPT ![i].result = r.write]
                           /\ writes' = [writes EXCEPT ![i] = @ + 1]
                           /\ runWrites' = runWrites + 1
                      ELSE UNCHANGED <<fs, writes, runWrites>>
    /\ UNCHANGED <<pending, full, runNo, prevFull, startTodo, startDone>>

\* the loop is over: the final report is printed and main returns
MainFinish ==
    /\ pc = "loop"
    /\ idx = Len(pending)
    /\ pc' = "done"
    /\ UNCHANGED <<fs, writes, pending, idx, stats, requests, llmCalls,
                   runWrites, full, runNo, prevFull, startTodo, startDone, last>>

\* the operator stops the process between two items
Kill ==
    /\ pc = "loop"
    /\ idx < Len(pending)
    /\ pc' = "killed"
    /\ UNCHANGED <<fs, writes, pending, idx, stats, requests, llmCalls,
                   runWrites, full, runNo, prevFull, startTodo, startDone, last>>

\* a folder as the orchestrator can find it
OrchFolders ==
    {[pdf |-> FALSE, file |-> 0, doc |-> NoDoc, result |-> r] : r \in {NoResult, Prior}}
    \cup {[pdf |-> TRUE, file |-> 1, doc |-> Paper, result |-> Prior]}
    \cup {[pdf |-> TRUE, file |-> 1, doc |-> d, result |-> NoResult] : d \in {Scanned, Paper}}

\* the variables of the string and concurrency specifications, unused
ExtIdle == pin = <<>> /\ pout = <<>> /\ workers = <<>>

OtherIdle ==
    /\ llm = call_llm_start /\ hist = <<>>
    /\ catIn = <<>> /\ catOut = <<>>
    /\ ExtIdle
    /\ store = <<>> /\ agg = <<>>

OrchInit(corpora) ==
    /\ fs \in corpora
    /\ writes = [i \in DOMAIN fs |-> 0]
    /\ pc = "idle" /\ pending = <<>> /\ idx = 0 /\ stats = ZeroStats
    /\ requests = 0 /\ llmCalls = 0 /\ runWrites = 0 /\ full = FALSE /\ runNo = 0
    /\ prevFull = FALSE /\ startTodo = {} /\ startDone = {} /\ last = NoCall

Init == OrchInit([1..NumFolders -> OrchFolders]) /\ OtherIdle

Next ==
    \/ \E key \in BOOLEAN, dry \in BOOLEAN, lim \in 0..MaxLimit,
          f \in 0..(Cardinality(DOMAIN fs) + 1) :
          \* without the key, or with --dry-run, main returns before the
          \* other arguments can change anything: one choice of them is enough
          /\ (~key \/ dry) => (lim = 0 /\ f = 0)
          /\ ~key => ~dry
          /\ MainStart(key, dry, lim, f)
          /\ UNCHANGED <<llmVars, normVars, aggVars, extVars>>
    \/ \E o \in LLMOutcomes : MainStep(o) /\ UNCHANGED <<llmVars, normVars, aggVars, extVars>>
    \/ MainFinish /\ UNCHANGED <<llmVars, normVars, aggVars, extVars>>
    \/ Kill /\ UNCHANGED <<llmVars, normVars, aggVars, extVars>>

Spec == Init /\ [][Next]_vars

\* analyze.py --dry-run with every combination of the other arguments, on
\* every corpus, with and without the API key
NextDry ==
    \E key \in BOOLEAN, lim \in 0..MaxLimit,
       f \in 0..(Cardinality(DOMAIN fs) + 1) :
        /\ MainStart(key, TRUE, lim, f)
        /\ UNCHANGED <<llmVars, normVars, aggVars, extVars>>

SpecDry == Init /\ [][NextDry]_vars

(***************************************************************************)
(* process_one run by several workers on the same folder, for instance by  *)
(* two analyze.py processes started together.  A worker is at "start",     *)
(* has "checked" that there is no result, has "computed" the record to     *)
(* write, or has "returned"; seen is the folder as its checks found it.    *)
(***************************************************************************)
Workers == 1..NumWorkers

\* call_llm is not reached when the folder has a result or no PDF
AnyOutcome == CHOOSE o \in LLMOutcomes : TRUE

\* no record yet
NoRecord == [status |-> "none", write |-> NoResult, requests |-> 0,
             calls |-> 0, len |-> 0, raised |-> FALSE]

InitConc ==
    /\ OrchInit([1..1 -> OrchFolders])
    /\ llm = call_llm_start /\ hist = <<>>
    /\ catIn = <<>> /\ catOut = <<>>
    /\ store = <<>> /\ agg = <<>>
    /\ pin = <<>> /\ pout = <<>>
    /\ workers = [w \in Workers |-> [pc |-> "start", seen |-> fs[1], res |-> NoRecord]]

\* lines 229-235: os.path.exists and glob.glob
ConcCheck(w) ==
    /\ workers[w].pc = "start"
    /\ workers' = [workers EXCEPT ![w] =
           [pc   |-> IF exists(fs[1]) \/ ~has_pdf(fs[1]) THEN "returned"
                     ELSE "checked",
            seen |-> fs[1],
            res  |-> IF exists(fs[1]) \/ ~has_pdf(fs[1])
                     THEN process_one(fs[1], AnyOutcome)
                     ELSE NoRecord]]
    /\ UNCHANGED <<fs, writes, requests, llmCalls>>

\* lines 237-251: the text is extracted and, when long enough, call_llm runs
ConcWork(w, o) ==
    /\ workers[w].pc = "checked"
    /\ LET r == process_one(workers[w].seen, o)
       IN  /\ workers' = [workers EXCEPT ![w].res = r,
                              ![w].pc = IF r.raised \/ r.write = NoResult
                                        THEN "returned" ELSE "computed"]
           /\ requests' = requests + r.requests
           /\ llmCalls' = llmCalls + r.calls
    /\ UNCHANGED <<fs, writes>>

\* lines 248-249 and 254-257: open(output_path, "w") and json.dump
ConcWrite(w) ==
    /\ workers[w].pc = "computed"
    /\ fs' = [fs EXCEPT ![1].result = workers[w].res.write]
    /\ writes' = [writes EXCEPT ![1] = @ + 1]
    /\ workers' = [workers EXCEPT ![w].pc = "returned"]
    /\ UNCHANGED <<requests, llmCalls>>

ConcFrame ==
    UNCHANGED <<pc, pending, idx, stats, runWrites, full, runNo, prevFull,
                startTodo, startDone, last, llmVars, normVars, aggVars, pin, pout>>

NextConc ==
    \/ \E w \in Workers : ConcCheck(w) /\ ConcFrame
    \/ \E w \in Workers, o \in LLMOutcomes : ConcWork(w, o) /\ ConcFrame
    \/ \E w \in Workers : ConcWrite(w) /\ ConcFrame

SpecConc == InitConc /\ [][NextConc]_vars

(***************************************************************************)
(* The end-to-end corpus: five folders, two already analysed, one without  *)
(* a PDF, one whose PDF yields 40 characters, one with a real paper, in    *)
(* any order.                                                              *)
(***************************************************************************)
E2EFolders ==
    << [pdf |-> TRUE,  file |-> 1, doc |-> Paper,   result |-> Prior],
       [pdf |-> TRUE,  file |-> 1, doc |-> Paper,   result |-> Prior],
       [pdf |-> FALSE, file |-> 0, doc |-> NoDoc,   result |-> NoResult],
       [pdf |-> TRUE,  file |-> 1, doc |-> Scanned, result |-> NoResult],
       [pdf |-> TRUE,  file |-> 1, doc |-> Paper,   result |-> NoResult] >>

E2ECorpora ==
    { [i \in DOMAIN E2EFolders |-> E2EFolders[p[i]]] :
        p \in Permutations(DOMAIN E2EFolders) }

InitE2E == OrchInit(E2ECorpora) /\ OtherIdle

SpecE2E == InitE2E /\ [][Next]_vars

(***************************************************************************)
(* process_one called on one folder in any state                           *)
(***************************************************************************)
PageLens == {0, 40, 99, 100, 20000}

UnitDocs ==
    {Doc(TRUE, m, <<>>, 0, 0) : m \in {10, 80}}
    \cup {Doc(FALSE, 0, p, l, tr) :
            p \in {<<>>} \cup {<<a>> : a \in PageLens}
                  \cup {<<a, b>> : a \in PageLens, b \in PageLens},
            l \in 0..1, tr \in 0..1}

UnitFolders ==
    {[pdf |-> FALSE, file |-> 0, doc |-> NoDoc, result |-> r] : r \in {NoResult, Prior}}
    \cup {[pdf |-> TRUE, file |-> 1, doc |-> d, result |-> r] :
            d \in UnitDocs, r \in {NoResult, Prior}}

InitUnit ==
    /\ OrchInit({<<f>> : f \in UnitFolders})
    /\ OtherIdle

\* result = process_one(folder_path), the result written as process_one writes it
UnitCall(o) ==
    /\ runNo < MaxRuns
    /\ runNo' = runNo + 1
    /\ LET r == process_one(fs[1], o)
       IN  /\ last' = [called |-> TRUE, pre |-> fs[1], res |-> r]
           /\ requests' = r.requests
           /\ llmCalls' = r.calls
           /\ IF r.write # NoResult
              THEN /\ fs' = [fs EXCEPT ![1].result = r.write]
                   /\ writes' = [writes EXCEPT ![1] = @ + 1]
                   /\ runWrites' = 1
              ELSE /\ UNCHANGED <<fs, writes>>
                   /\ runWrites' = 0
    /\ UNCHANGED <<pc, pending, idx, stats, full, prevFull, startTodo, startDone>>

NextUnit == \E o \in LLMOutcomes : UnitCall(o) /\ UNCHANGED <<llmVars, normVars, aggVars, extVars>>

SpecUnit == InitUnit /\ [][NextUnit]_vars

(***************************************************************************)
(* call_llm, one request per step                                          *)
(***************************************************************************)
OrchIdle == OrchInit({<<>>})

InitLLM ==
    /\ OrchIdle
    /\ llm = call_llm_start /\ hist = <<>>
    /\ catIn = <<>> /\ catOut = <<>>
    /\ ExtIdle
    /\ store = <<>> /\ agg = <<>>

\* the service answers the next request with r
LLMRequest(r) ==
    /\ llm.outcome = "running"
    /\ llm' = call_llm_attempt(llm, r)
    /\ hist' = Append(hist, r)

NextLLM == \E r \in Responses : LLMRequest(r) /\ UNCHANGED <<orchVars, normVars, aggVars, extVars>>

SpecLLM == InitLLM /\ [][NextLLM]_vars

(***************************************************************************)
(* Python values and strings.  A string is a sequence of one-character     *)
(* strings.  A JSON value is tagged: t is "missing" (the key is absent),   *)
(* "null", "int" (n is the number) or "str" (s is the string).             *)
(***************************************************************************)
Missing   == [t |-> "missing", n |-> 0, s |-> <<>>]
Null      == [t |-> "null", n |-> 0, s |-> <<>>]
JInt(n)   == [t |-> "int", n |-> n, s |-> <<>>]
JStr(s)   == [t |-> "str", n |-> 0, s |-> s]
JList(l)  == [t |-> "list", n |-> 0, s |-> l]         \* a list of strings

IsSpace(c) == c \in {" ", "\t", "\n"}

RECURSIVE LStrip(_)
LStrip(s) == IF s # <<>> /\ IsSpace(Head(s)) THEN LStrip(Tail(s)) ELSE s

RECURSIVE RStrip(_)
RStrip(s) ==
    IF s # <<>> /\ IsSpace(s[Len(s)]) THEN RStrip(SubSeq(s, 1, Len(s) - 1)) ELSE s

\* str.strip()
Strip(s) == RStrip(LStrip(s))

LowerCase == <<"a", "b", "c", "d", "e", "f", "g", "h", "i", "j", "k", "l", "m",
               "n", "o", "p", "q", "r", "s", "t", "u", "v", "w", "x", "y", "z">>
UpperCase == <<"A", "B", "C", "D", "E", "F", "G", "H", "I", "J", "K", "L", "M",
               "N", "O", "P", "Q", "R", "S", "T", "U", "V", "W", "X", "Y", "Z">>

\* str.upper() of one character
Upper(c) ==
    IF \E k \in DOMAIN LowerCase : LowerCase[k] = c
    THEN UpperCase[CHOOSE k \in DOMAIN LowerCase : LowerCase[k] = c]
    ELSE c

Digits == <<"0", "1", "2", "3", "4", "5", "6", "7", "8", "9">>
IsDigit(c) == \E k \in DOMAIN Digits : Digits[k] = c
DigitVal(c) == (CHOOSE k \in DOMAIN Digits : Digits[k] = c) - 1

RECURSIVE DecimalValue(_, _)
DecimalValue(s, acc) ==
    IF s = <<>> THEN acc ELSE DecimalValue(Tail(s), acc * 10 + DigitVal(Head(s)))

\* int(v): [ok, n] on success, [ok = FALSE, exc] when it raises
py_int(v) ==
    IF v.t = "int" THEN [ok |-> TRUE, n |-> v.n, exc |-> ""]
    ELSE IF v.t = "str" THEN
        LET b    == Strip(v.s)
            neg  == b # <<>> /\ Head(b) = "-"
            body == IF b # <<>> /\ Head(b) \in {"-", "+"} THEN Tail(b) ELSE b
        IN  IF body # <<>> /\ \A k \in DOMAIN body : IsDigit(body[k])
            THEN [ok |-> TRUE,
                  n  |-> IF neg THEN 0 - DecimalValue(body, 0)
                         ELSE DecimalValue(body, 0),
                  exc |-> ""]
            ELSE [ok |-> FALSE, n |-> 0, exc |-> "ValueError"]
    ELSE [ok |-> FALSE, n |-> 0, exc |-> "TypeError"]     \* int(None)

(***************************************************************************)
(* normalize_category: summarize.py and deep_analysis.py each define one.  *)
(* The result is a one-letter category, "Unknown", or "IndexError" when    *)
(* the call raises.  A missing key reaches it as None (data.get).          *)
(***************************************************************************)
CategoryLetters == {"A", "B", "C", "D", "E", "F"}

\* `not cat or not isinstance(cat, str)`
NotAString(v) == v.t # "str" \/ v.s = <<>>

\* summarize.py
normalize_category(v) ==
    IF NotAString(v) THEN "Unknown"
    ELSE IF Strip(v.s) = <<>> THEN "IndexError"           \* cat.strip()[0]
    ELSE LET c == Upper(Strip(v.s)[1])
         IN  IF c \in CategoryLetters THEN c ELSE "Unknown"

\* deep_analysis.py
normalize_category_deep(v) ==
    IF NotAString(v) THEN "Unknown"
    ELSE IF Strip(v.s) = <<>> THEN "IndexError"
    ELSE LET c == Upper(Strip(v.s)[1])
         IN  IF c \in CategoryLetters THEN c ELSE "Unknown"

CatChars == {" ", "a", "e", "E", "g", "."}

RECURSIVE StringsUpTo(_, _)
StringsUpTo(chars, n) ==
    IF n = 0 THEN {<<>>}
    ELSE LET shorter == StringsUpTo(chars, n - 1)
         IN  shorter \cup {Append(s, c) : s \in shorter, c \in chars}

InitNorm ==
    /\ OrchIdle
    /\ llm = call_llm_start /\ hist = <<>>
    /\ catIn \in {JStr(s) : s \in StringsUpTo(CatChars, MaxLen)} \cup {Null}
    /\ catOut = <<>>
    /\ ExtIdle
    /\ store = <<>> /\ agg = <<>>

\* both copies are applied to the input
Normalize ==
    /\ catOut = <<>>
    /\ catOut' = [sum |-> normalize_category(catIn),
                  deep |-> normalize_category_deep(catIn)]
    /\ UNCHANGED catIn

NextNorm == Normalize /\ UNCHANGED <<orchVars, llmVars, aggVars, extVars>>

SpecNorm == InitNorm /\ [][NextNorm]_vars

(***************************************************************************)
(* deep_analysis.py: canonical names.  Labels and keywords are written as  *)
(* strings and handled as sequences of characters.  pin is the label given *)
(* to the tool, pout the calls made so far: which function, its argument   *)
(* and its result.                                                         *)
(***************************************************************************)
Chars(str) == [i \in 1..Len(str) |-> SubSeq(str, i, i)]

\* str.lower()
Lower(c) ==
    IF \E k \in DOMAIN UpperCase : UpperCase[k] = c
    THEN LowerCase[CHOOSE k \in DOMAIN UpperCase : UpperCase[k] = c]
    ELSE c

LowerStr(s) == [i \in DOMAIN s |-> Lower(s[i])]

\* kw in sl
Contains(kw, sl) ==
    \E i \in 1..(Len(sl) - Len(kw) + 1) : SubSeq(sl, i, i + Len(kw) - 1) = kw

\* the mapping of normalize_method, in source order
MethodMapping ==
    << <<"Artificial Neural Network", "Neural Network / ANN">>,
       <<"ANN", "Neural Network / ANN">>,
       <<"Deep Neural Network", "Deep Neural Network (DNN)">>,
       <<"DNN", "Deep Neural Network (DNN)">>,
       <<"Convolutional Neural Network", "Convolutional Neural Network (CNN)">>,
       <<"CNN", "Convolutional Neural Network (CNN)">>,
       <<"LSTM", "LSTM">>,
       <<"Long Short-Term Memory", "LSTM">>,
       <<"Physics-Informed Neural Network", "PINN">>,
       <<"PINN", "PINN">>,
       <<"Generative Adversarial Network", "GAN">>,
       <<"GAN", "GAN">>,
       <<"Support Vector Machine", "SVM / SVR">>,
       <<"SVM", "SVM / SVR">>,
       <<"SVR", "SVM / SVR">>,
       <<"Gaussian Process", "Gaussian Process (GP/GPR)">>,
       <<"Gaussian Process Regression", "Gaussian Process (GP/GPR)">>,
       <<"GPR", "Gaussian Process (GP/GPR)">>,
       <<"Random Forest", "Random Forest (RF)">>,
       <<"RF", "Random Forest (RF)">> >>

\* m = m.strip(); return mapping.get(m, m)
normalize_method(m) ==
    LET key == Strip(m)
        hit == {k \in DOMAIN MethodMapping : Chars(MethodMapping[k][1]) = key}
    IN  IF hit = {} THEN key
        ELSE Chars(MethodMapping[CHOOSE k \in hit : TRUE][2])

\* the keyword blocks of normalize_technique, in source order
TechniqueRules_bug ==
    << [kws |-> <<"multi-fidelity", "multifidelity", "multi fidelity",
                  "dual fidelity", "bi-fidelity">>,
        label |-> "Multi-Fidelity Data Fusion"],
       [kws |-> <<"transfer learn", "fine-tun", "fine tun">>,
        label |-> "Transfer Learning"],
       [kws |-> <<"physics-inform", "physics inform", "pinn",
                  "physics-guided", "physics constrain">>,
        label |-> "Physics-Informed Methods / PINN"],
       [kws |-> <<"surrogate", "emulat", "model">>,
        label |-> "Surrogate Modeling"],
       [kws |-> <<"data augment">>,
        label |-> "Data Augmentation"],
       [kws |-> <<"virtual sample", "synthetic sample", "synthetic data">>,
        label |-> "Virtual Sample Generation"],
       [kws |-> <<"active learn", "adaptive sampling", "adaptive sample">>,
        label |-> "Active Learning / Adaptive Sampling"],
       [kws |-> <<"few-shot", "few shot", "small sample", "small data",
                  "low-data", "low data">>,
        label |-> "Few-Shot / Small-Data Learning"],
       [kws |-> <<"sparse", "compress", "compressive">>,
        label |-> "Sparse Methods / Compressed Sensing"],
       [kws |-> <<"gan", "generative adversarial", "variational autoencod",
                  "diffusion model", "vae">>,
        label |-> "Generative Models (GAN/VAE/Diffusion)"],
       [kws |-> <<"multi-task", "multitask">>,
        label |-> "Multi-Task Learning"],
       [kws |-> <<"uncertainty", "bayesian", "probabilistic">>,
        label |-> "Uncertainty Quantification / Bayesian Methods"] >>

TechniqueRules ==
    << [kws |-> <<"multi-fidelity", "multifidelity", "multi fidelity",
                  "dual fidelity", "bi-fidelity">>,
        label |-> "Multi-Fidelity Data Fusion"],
       [kws |-> <<"transfer learn", "fine-tun", "fine tun">>,
        label |-> "Transfer Learning"],
       [kws |-> <<"physics-inform", "physics inform", "pinn",
                  "physics-guided", "physics constrain">>,
        label |-> "Physics-Informed Methods / PINN"],
       [kws |-> <<"surrogate", "emulat", "metamodel">>,
        label |-> "Surrogate Modeling"],
       [kws |-> <<"data augment">>,
        label |-> "Data Augmentation"],
       [kws |-> <<"virtual sample", "synthetic sample", "synthetic data">>,
        label |-> "Virtual Sample Generation"],
       [kws |-> <<"active learn", "adaptive sampling", "adaptive sample">>,
        label |-> "Active Learning / Adaptive Sampling"],
       [kws |-> <<"few-shot", "few shot", "small sample", "small data",
                  "low-data", "low data">>,
        label |-> "Few-Shot / Small-Data Learning"],
       [kws |-> <<"sparse", "compress", "compressive">>,
        label |-> "Sparse Methods / Compressed Sensing"],
       [kws |-> <<"gan", "generative adversarial", "variational autoencod",
                  "diffusion model", "vae">>,
        label |-> "Generative Models (GAN/VAE/Diffusion)"],
       [kws |-> <<"multi-task", "multitask">>,
        label |-> "Multi-Task Learning"],
       [kws |-> <<"uncertainty", "bayesian", "probabilistic">>,
        label |-> "Uncertainty Quantification / Bayesian Methods"] >>

\* any(kw in sl for kw in [...]) of the k-th block
rule_matches(k, sl) ==
    \E j \in DOMAIN TechniqueRules[k].kws :
        Contains(Chars(TechniqueRules[k].kws[j]), sl)

RECURSIVE first_match_bug(_, _)
\* the if-blocks taken bottom up
first_match_bug(sl, k) ==
    IF k > Len(TechniqueRules) THEN 0
    ELSE LET later == first_match_bug(sl, k + 1)
         IN  IF later # 0 THEN later
             ELSE IF rule_matches(k, sl) THEN k ELSE 0

RECURSIVE first_match(_, _)
\* the if-blocks run top down from block k; 0 when control reaches the end
first_match(sl, k) ==
    IF k > Len(TechniqueRules) THEN 0
    ELSE IF rule_matches(k, sl) THEN k
    ELSE first_match(sl, k + 1)

no_match_bug(s, sl) == sl

\* return s  # Return as-is if no match
no_match(s, sl) == s

normalize_technique(str) ==
    LET s  == Strip(str)
        sl == LowerStr(s)
        k  == first_match(sl, 1)
    IN  IF k # 0 THEN Chars(TechniqueRules[k].label) ELSE no_match(s, sl)

TechniqueLabels ==
    {Chars(TechniqueRules[k].label) : k \in DOMAIN TechniqueRules}
MethodKeys   == {Chars(MethodMapping[k][1]) : k \in DOMAIN MethodMapping}
MethodValues == {Chars(MethodMapping[k][2]) : k \in DOMAIN MethodMapping}

\* the words the labels of SpecTech are put together from
TechWords == {" ", "PINN", "Surrogate", "GAN", "bayesian", "Kriging",
              "Transfer Learning", "multi-fidelity"}

RECURSIVE Phrases(_)
\* up to n words, one after the other
Phrases(n) ==
    IF n = 0 THEN {<<>>}
    ELSE LET shorter == Phrases(n - 1)
         IN  shorter \cup {p \o Chars(w) : p \in shorter, w \in TechWords}

InitTech ==
    /\ OrchIdle
    /\ llm = call_llm_start /\ hist = <<>>
    /\ catIn = <<>> /\ catOut = <<>>
    /\ store = <<>> /\ agg = <<>>
    /\ workers = <<>>
    /\ pin \in TechniqueLabels \cup MethodKeys \cup MethodValues
               \cup Phrases(MaxWords)
    /\ pout = <<>>

\* the label itself or what an earlier call returned
TechArgs == {pin} \cup {pout[k].res : k \in DOMAIN pout}

TechniqueCall(arg) ==
    /\ Len(pout) < MaxCalls
    /\ pout' = Append(pout, [fn |-> "normalize_technique", arg |-> arg,
                             res |-> normalize_technique(arg)])
    /\ UNCHANGED <<pin, workers>>

MethodCall(arg) ==
    /\ Len(pout) < MaxCalls
    /\ pout' = Append(pout, [fn |-> "normalize_method", arg |-> arg,
                             res |-> normalize_method(arg)])
    /\ UNCHANGED <<pin, workers>>

NextTech ==
    \/ \E arg \in TechArgs :
           TechniqueCall(arg) /\ UNCHANGED <<orchVars, llmVars, normVars, aggVars>>
    \/ \E arg \in TechArgs :
           MethodCall(arg) /\ UNCHANGED <<orchVars, llmVars, normVars, aggVars>>

SpecTech == InitTech /\ [][NextTech]_vars

(***************************************************************************)
(* call_llm: the content of a response before json.loads.  The backquote   *)
(* cannot be written in a string, so the character is named.  pin is the   *)
(* content with the way it was put together, pout what call_llm makes of   *)
(* it.                                                                     *)
(***************************************************************************)
Backquote == "BACKQUOTE"
Fence     == <<Backquote, Backquote, Backquote>>

\* content.startswith(p), content.endswith(p)
StartsWith(s, p) == Len(s) >= Len(p) /\ SubSeq(s, 1, Len(p)) = p
EndsWith(s, p)   == Len(s) >= Len(p) /\ SubSeq(s, Len(s) - Len(p) + 1, Len(s)) = p

\* content.split("\n", 1)[1]: what follows the first newline
AfterFirstNewline(s) ==
    LET i == CHOOSE j \in DOMAIN s :
                 s[j] = "\n" /\ \A k \in 1..(j - 1) : s[k] # "\n"
    IN  SubSeq(s, i + 1, Len(s))

after_open_fence_bug(content) == SubSeq(content, 4, Len(content))

\* content.split("\n", 1)[1] if "\n" in content else content[3:]
after_open_fence(content) ==
    IF \E j \in DOMAIN content : content[j] = "\n"
    THEN AfterFirstNewline(content)
    ELSE SubSeq(content, 4, Len(content))

\* lines 187-192: the text handed to json.loads
strip_fence(content) ==
    LET c1 == Strip(content)
        c2 == IF StartsWith(c1, Fence) THEN after_open_fence(c1) ELSE c1
        c3 == IF EndsWith(c2, Fence) THEN SubSeq(c2, 1, Len(c2) - 3) ELSE c2
    IN  Strip(c3)

\* the JSON documents of SpecFence
JsonTexts == {Chars("{\"a\":1}"), Chars("{\"a\":\n 1}"), Chars("{}")}

\* json.loads: whitespace around the document and between its tokens is
\* skipped; anything that is not a document raises JSONDecodeError
json_loads(text) ==
    IF Strip(text) \in JsonTexts
    THEN [ok |-> TRUE, value |-> SelectSeq(text, LAMBDA c : ~IsSpace(c))]
    ELSE [ok |-> FALSE, value |-> <<>>]

Pads == StringsUpTo({" ", "\n"}, MaxPad)
Tags == {<<>>, Chars("json")}

\* the document alone, inside a fence whose opening marker has a line of its
\* own, inside a fence on one line, and inside a fence followed by prose
Contents ==
    {[shape |-> "plain", inner |-> inner, body |-> lead \o inner \o trail] :
        inner \in JsonTexts, lead \in Pads, trail \in Pads}
    \cup
    {[shape |-> "fenced", inner |-> inner,
      body |-> lead \o Fence \o tag \o <<"\n">> \o inner \o sep \o Fence \o trail] :
        inner \in JsonTexts, tag \in Tags, lead \in Pads, sep \in Pads,
        trail \in Pads}
    \cup
    {[shape |-> "one line", inner |-> inner,
      body |-> Fence \o tag \o inner \o Fence] :
        inner \in JsonTexts, tag \in Tags}
    \cup
    {[shape |-> "prose", inner |-> inner,
      body |-> Fence \o tag \o <<"\n">> \o inner \o <<"\n">> \o Fence
                   \o <<"\n">> \o Chars("Done.")] :
        inner \in JsonTexts, tag \in Tags}

InitFence ==
    /\ OrchIdle
    /\ llm = call_llm_start /\ hist = <<>>
    /\ catIn = <<>> /\ catOut = <<>>
    /\ store = <<>> /\ agg = <<>>
    /\ workers = <<>>
    /\ pin \in Contents
    /\ pout = <<>>

\* lines 185-194 on the content of one response
ParseContent ==
    /\ pout = <<>>
    /\ pout' = [content |-> strip_fence(pin.body),
                result  |-> json_loads(strip_fence(pin.body))]
    /\ UNCHANGED <<pin, workers>>

NextFence == ParseContent /\ UNCHANGED <<orchVars, llmVars, normVars, aggVars>>

SpecFence == InitFence /\ [][NextFence]_vars

(***************************************************************************)
(* Aggregation.  store[k] is the JSON object in the analysis.json of the   *)
(* k-th folder (sorted order); only the fields the score-dependent steps   *)
(* read are kept.                                                          *)
(***************************************************************************)
AggCategories == {JStr(<<"E">>), JStr(<<"a", ".">>), JStr(<<" ">>), Missing}
AggScores     == {Missing, Null, JStr(<<"f", "o", "u", "r">>), JStr(<<"4">>),
                  JInt(3), JInt(5)}

\* what process_one writes when the text is too short or call_llm gave up:
\* an object with the key "error" and none of the analysis fields
ErrorRecord == [primary_category |-> Missing, relevance_score |-> Missing,
                core_technique |-> Missing, error |-> TRUE]

AggFiles == [primary_category : AggCategories, relevance_score : AggScores,
             core_technique : {Missing}, error : {FALSE}] \cup {ErrorRecord}

\* data.get(key): None when the key is absent
Get(v) == IF v.t = "missing" THEN Null ELSE v

\* summarize.py: the relevance_score left in a loaded record
\*   rs = data.get("relevance_score")
\*   if rs is not None: try int(rs) except (ValueError, TypeError): 0
coerce_score(raw) ==
    IF Get(raw) = Null THEN raw
    ELSE IF py_int(raw).ok THEN JInt(py_int(raw).n)
    ELSE IF py_int(raw).exc \in {"ValueError", "TypeError"} THEN JInt(0)
    ELSE raw

RECURSIVE load_all(_, _)
\* summarize.load_all over files k..Len(files): [results, errors]
load_all(files, k) ==
    IF k > Len(files) THEN [results |-> <<>>, errors |-> <<>>]
    ELSE LET rest == load_all(files, k + 1)
             cat  == normalize_category(Get(files[k].primary_category))
         IN  IF cat = "IndexError"
             THEN [rest EXCEPT !.errors = <<k>> \o @]
             ELSE [rest EXCEPT !.results =
                      <<[folder |-> k, cat |-> cat,
                         score |-> coerce_score(files[k].relevance_score)]>> \o @]

\* deep_analysis.safe_int(v, default=0)
safe_int(v) == IF py_int(v).ok THEN py_int(v).n ELSE 0

RECURSIVE load_all_deep(_, _)
\* deep_analysis.load_all: a file that raises is dropped silently
load_all_deep(files, k) ==
    IF k > Len(files) THEN [results |-> <<>>, errors |-> <<>>]
    ELSE LET rest == load_all_deep(files, k + 1)
             cat  == normalize_category_deep(Get(files[k].primary_category))
         IN  IF cat = "IndexError" THEN rest
             ELSE [rest EXCEPT !.results =
                      <<[folder |-> k, cat |-> cat,
                         score |-> JInt(safe_int(Get(files[k].relevance_score))),
                         tech  |-> files[k].core_technique]>>
                      \o @]

\* r.get("relevance_score", default)
ScoreOr(r, default) == IF r.score.t = "missing" THEN default ELSE r.score

\* rel: the keys of the relevance Counter
rel_keys(results) == {ScoreOr(results[k], JStr(<<"?">>)) : k \in DOMAIN results}

\* sorted(rel.keys(), key=lambda x: (isinstance(x, str), x)) raises TypeError
\* when it has to order None against a number
sorted_rel_raises(keys) == Null \in keys /\ \E x \in keys : x.t = "int"

\* r.get("primary_category") == "E" and r.get("relevance_score", 0) >= 4
\* raises TypeError on None >= 4
core_test_raises(r) == r.cat = "E" /\ ScoreOr(r, JInt(0)) = Null
is_core(r) == r.cat = "E" /\ ScoreOr(r, JInt(0)).n >= 4

RECURSIVE InsertDesc(_, _)
\* x goes behind every element whose key is >= its own
InsertDesc(sorted, x) ==
    IF sorted = <<>> THEN <<x>>
    ELSE IF ScoreOr(Head(sorted), JInt(0)).n >= ScoreOr(x, JInt(0)).n
         THEN <<Head(sorted)>> \o InsertDesc(Tail(sorted), x)
         ELSE <<x>> \o sorted

RECURSIVE SortByScoreDesc(_)
\* list.sort(key=score, reverse=True): stable
SortByScoreDesc(s) ==
    IF s = <<>> THEN <<>>
    ELSE InsertDesc(SortByScoreDesc(SubSeq(s, 1, Len(s) - 1)), s[Len(s)])

\* the score-dependent steps of summarize.main, in program order
summarize_main(results) ==
    IF sorted_rel_raises(rel_keys(results))
    THEN [raised |-> TRUE, at |-> "relevance distribution", core |-> <<>>]
    ELSE IF \E k \in DOMAIN results : core_test_raises(results[k])
    THEN [raised |-> TRUE, at |-> "core selection", core |-> <<>>]
    ELSE [raised |-> FALSE, at |-> "",
          core |-> SortByScoreDesc(SelectSeq(results, is_core))]

\* primary: Counter of r.get("primary_category", "Unknown")
primary(results) ==
    [c \in {results[k].cat : k \in DOMAIN results} |->
        Cardinality({k \in DOMAIN results : results[k].cat = c})]

\* rel: Counter of r.get("relevance_score", "?")
rel(results) ==
    [x \in rel_keys(results) |->
        Cardinality({k \in DOMAIN results :
                        ScoreOr(results[k], JStr(<<"?">>)) = x})]

\* cross[cat][score] += 1
cross(results) ==
    [c \in {results[k].cat : k \in DOMAIN results} |->
        LET row == {k \in DOMAIN results : results[k].cat = c}
        IN  [x \in {ScoreOr(results[k], JStr(<<"?">>)) : k \in row} |->
                Cardinality({k \in row :
                                ScoreOr(results[k], JStr(<<"?">>)) = x})]]

\* counter.get(key, 0)
counter_get(counter, key) ==
    IF key \in DOMAIN counter THEN counter[key] ELSE 0

RECURSIVE SumValues(_, _)
SumValues(counter, keys) ==
    IF keys = {} THEN 0
    ELSE LET x == CHOOSE y \in keys : TRUE
         IN  counter[x] + SumValues(counter, keys \ {x})

ScoreColumns == 1..5

row_total_bug(row) ==
    SumValues([s \in ScoreColumns |-> counter_get(row, JInt(s))], ScoreColumns)

\* total = sum(row.values())
row_total(row) == SumValues(row, DOMAIN row)

\* the printed table: for each of A-F the columns 1..5 and the row total
crosstab(results) ==
    [cat \in CategoryLetters |->
        LET row == IF cat \in DOMAIN cross(results) THEN cross(results)[cat]
                   ELSE <<>>
        IN  [cols  |-> [s \in ScoreColumns |-> counter_get(row, JInt(s))],
             total |-> row_total(row)]]

RECURSIVE Decimal(_)
\* the digits of n >= 0
Decimal(n) ==
    IF n < 10 THEN <<Digits[n + 1]>>
    ELSE Append(Decimal(n \div 10), Digits[(n % 10) + 1])

\* str(k) of a key of rel
py_str(v) ==
    IF v.t = "int" THEN (IF v.n < 0 THEN <<"-">> \o Decimal(0 - v.n)
                         ELSE Decimal(v.n))
    ELSE IF v.t = "str" THEN v.s
    ELSE <<"N", "o", "n", "e">>

\* the counters of summary.json that depend on category and score
summary(loaded) ==
    [total        |-> Len(loaded.results),
     parse_errors |-> Len(loaded.errors),
     primary_category_counts |-> primary(loaded.results),
     relevance_score_counts  |->
         [key \in {py_str(x) : x \in rel_keys(loaded.results)} |->
             SumValues(rel(loaded.results),
                       {x \in rel_keys(loaded.results) : py_str(x) = key})]]

\* the ranking steps of deep_analysis.main:
\* sorted(papers, key=lambda x: (x["relevance_score"], x["year"]), reverse=True)
deep_main(results) ==
    IF \E k \in DOMAIN results : results[k].score.t # "int"
    THEN [raised |-> TRUE, at |-> "ranking", core |-> <<>>]
    ELSE [raised |-> FALSE, at |-> "", core |-> SortByScoreDesc(results)]

\* de_papers = by_cat.get("D", []) + by_cat.get("E", [])
de_papers(results) ==
    SelectSeq(results, LAMBDA r : r.cat = "D")
        \o SelectSeq(results, LAMBDA r : r.cat = "E")

Untagged == Chars("Other / Untagged")

\* the key of technique_groups a record is appended under
primary_technique(r) ==
    LET techniques == IF r.tech.t = "missing" THEN <<>> ELSE r.tech.s
    IN  IF techniques = <<>> THEN Untagged
        ELSE normalize_technique(techniques[1])

\* technique_groups[key].append(r): a new key goes behind the others
group_append(groups, key, r) ==
    IF \E i \in DOMAIN groups : groups[i].technique = key
    THEN LET i == CHOOSE j \in DOMAIN groups : groups[j].technique = key
         IN  [groups EXCEPT ![i].papers = Append(@, r.folder)]
    ELSE Append(groups, [technique |-> key, papers |-> <<r.folder>>])

RECURSIVE technique_groups(_, _)
\* the groups after the first k records of papers, in insertion order
technique_groups(papers, k) ==
    IF k = 0 THEN <<>>
    ELSE group_append(technique_groups(papers, k - 1),
                      primary_technique(papers[k]), papers[k])

RECURSIVE InsertBySize(_, _)
InsertBySize(sorted, g) ==
    IF sorted = <<>> THEN <<g>>
    ELSE IF Len(Head(sorted).papers) >= Len(g.papers)
         THEN <<Head(sorted)>> \o InsertBySize(Tail(sorted), g)
         ELSE <<g>> \o sorted

RECURSIVE sorted_techniques(_)
\* sorted(technique_groups.items(), key=lambda x: len(x[1]), reverse=True)
sorted_techniques(groups) ==
    IF groups = <<>> THEN <<>>
    ELSE InsertBySize(sorted_techniques(SubSeq(groups, 1, Len(groups) - 1)),
                      groups[Len(groups)])

no_section_bug(papers) == Len(papers) < 1

\* if len(papers) < 2: continue
no_section(papers) == Len(papers) < 2

RECURSIVE numbered_sections(_, _, _)
\* the loop over sorted_techniques from position k; section_num counts the
\* headings written
numbered_sections(sorted, k, section_num) ==
    IF k > Len(sorted) THEN <<>>
    ELSE IF no_section(sorted[k].papers)
         THEN numbered_sections(sorted, k + 1, section_num)
    ELSE <<[num |-> section_num, technique |-> sorted[k].technique,
            papers |-> sorted[k].papers]>>
             \o numbered_sections(sorted, k + 1, section_num + 1)

\* [(s, p) for s, p in sorted_techniques if len(p) < 2 and len(p) > 0]
small_techniques(sorted) ==
    SelectSeq(sorted, LAMBDA g : Len(g.papers) < 2 /\ Len(g.papers) > 0)

\* chapter 5 of the outline: the numbered sections, then "Other Methods"
\* under the next number with one line per small technique
outline(results) ==
    LET groups   == technique_groups(de_papers(results), Len(de_papers(results)))
        sorted   == sorted_techniques(groups)
        sections == numbered_sections(sorted, 1, 1)
        small    == small_techniques(sorted)
    IN  [groups   |-> groups,
         sections |-> sections,
         other    |-> IF small = <<>> THEN 0 ELSE Len(sections) + 1,
         singles  |-> [i \in DOMAIN small |->
                          [technique |-> small[i].technique,
                           folder    |-> small[i].papers[1]]]]

InitAgg ==
    /\ OrchIdle
    /\ llm = call_llm_start /\ hist = <<>>
    /\ catIn = <<>> /\ catOut = <<>>
    /\ ExtIdle
    /\ store \in UNION {[1..n -> AggFiles] : n \in 0..NumRecords}
    /\ agg = <<>>

\* python summarize.py
SummarizeRun ==
    /\ agg' = LET loaded == load_all(store, 1)
                   out    == summarize_main(loaded.results)
               IN  [tool |-> "summarize", loaded |-> loaded, out |-> out,
                    crosstab |-> IF out.at = "relevance distribution" THEN <<>>
                                 ELSE crosstab(loaded.results),
                    summary  |-> IF out.raised THEN <<>> ELSE summary(loaded)]
    /\ UNCHANGED store

\* python deep_analysis.py
DeepRun ==
    /\ agg' = LET loaded == load_all_deep(store, 1)
                   out    == deep_main(loaded.results)
               IN  [tool |-> "deep", loaded |-> loaded, out |-> out,
                    outline |-> IF out.raised THEN <<>>
                                ELSE outline(loaded.results)]
    /\ UNCHANGED store

NextAgg ==
    \/ SummarizeRun /\ UNCHANGED <<orchVars, llmVars, normVars, extVars>>
    \/ DeepRun /\ UNCHANGED <<orchVars, llmVars, normVars, extVars>>

SpecAgg == InitAgg /\ [][NextAgg]_vars

\* the analysis.json files of SpecOutline: category and technique list vary
OutlineTechniques ==
    {Missing, JList(<<>>), JList(<<Chars("PINN")>>),
     JList(<<Chars(" physics-informed loss"), Chars("GAN")>>),
     JList(<<Chars("Kriging")>>)}

OutlineFiles ==
    [primary_category : {JStr(<<"D">>), JStr(<<"E">>), JStr(<<"A">>)},
     relevance_score : {JInt(4)},
     core_technique : OutlineTechniques, error : {FALSE}]

InitOutline ==
    /\ OrchIdle
    /\ llm = call_llm_start /\ hist = <<>>
    /\ catIn = <<>> /\ catOut = <<>>
    /\ ExtIdle
    /\ store \in UNION {[1..n -> OutlineFiles] : n \in 0..NumPapers}
    /\ agg = <<>>

NextOutline == DeepRun /\ UNCHANGED <<orchVars, llmVars, normVars, extVars>>

SpecOutline == InitOutline /\ [][NextOutline]_vars

(***************************************************************************)
(*                              PROPERTIES                                 *)
(***************************************************************************)
NormalReturn == pc \in {"alldone", "done"}

WrittenKinds == {"too_short", "analysis", "failed"}

RECURSIVE SumSeq(_)
SumSeq(s) == IF s = <<>> THEN 0 ELSE Head(s) + SumSeq(Tail(s))

C2_NeverOverwrite ==
    [][ /\ \A i \in DOMAIN fs :
              fs[i].result # NoResult =>
                  (fs'[i] = fs[i] /\ writes'[i] = writes[i])
        /\ (last'.called /\ last' # last /\ last'.pre.result # NoResult) =>
              (fs' = fs /\ requests' = requests) ]_vars

\* a later run went through its loop while a record written by an earlier run
\* was in place
C2_Witness ==
    /\ runNo = 2 /\ pc = "done" /\ runWrites >= 1
    /\ \E i \in startDone : writes[i] = 1 /\ fs[i].result.kind \in WrittenKinds

\* C3: when a full run returns, every folder that had a PDF and no
\* analysis.json at its start has exactly one record, written once.
C3_EveryPendingItemGetsARecord ==
    (full /\ NormalReturn) =>
        \A i \in startTodo :
            fs[i].result.kind \in WrittenKinds /\ writes[i] = 1

\* C4: on a folder with a PDF and no result, text shorter than 100 characters
\* gives the too-short ErrorRecord {error, filename, extracted_chars}, status
\* "too_short" and no call_llm call or request; otherwise call_llm is called
\* exactly once.
C4_ShortCircuit ==
    (last.called /\ last.pre.pdf /\ last.pre.result = NoResult) =>
        LET n == extract_text_from_pdf(last.pre.doc)
        IN  IF n < MinTextChars
            THEN /\ last.res.status = "too_short"
                 /\ fs[1].result = [kind |-> "too_short", file |-> last.pre.file,
                                    chars |-> n]
                 /\ llmCalls = 0
                 /\ requests = 0
            ELSE /\ llmCalls = 1
                 /\ last.res.status # "too_short"

\* process_one has short-circuited on a text of 99 characters
C4_Witness ==
    /\ last.called /\ last.res.status = "too_short"
    /\ fs[1].result.kind = "too_short" /\ fs[1].result.chars = 99
    /\ llmCalls = 0

\* C5: whatever the service answers, call_llm hands process_one a record
\* without raising, the record is persisted and the run goes on.
C5_ItemFailuresNeverStopTheBatch ==
    (last.called /\ last.res.calls = 1) =>
        /\ ~last.res.raised
        /\ last.res.write # NoResult
        /\ pc # "crashed"

IsRateLimited(r) == r.post = "ok" /\ r.status = 429

\* C6: the wait after a rate-limited attempt k is RETRY_DELAY*(k+2), strictly
\* increasing in k; rate-limited twice and then a valid response gives the
\* success record on the 3rd request after a total wait of
\* RETRY_DELAY*(0+2) + RETRY_DELAY*(1+2).
C6_Backoff ==
    /\ \A k \in 1..Len(hist) :
          (IsRateLimited(hist[k]) /\ k <= Len(llm.waits)) =>
              llm.waits[k] = RETRY_DELAY * ((k - 1) + 2)
    /\ \A j, k \in 1..Len(llm.waits) :
          (j < k /\ IsRateLimited(hist[j]) /\ IsRateLimited(hist[k])) =>
              llm.waits[j] < llm.waits[k]
    /\ (/\ Len(hist) = 3
        /\ IsRateLimited(hist[1]) /\ IsRateLimited(hist[2])
        /\ hist[3] = GoodResp) =>
           /\ llm.outcome = "success"
           /\ llm.requests = 3
           /\ Len(llm.waits) = 2
           /\ SumSeq(llm.waits) = RETRY_DELAY * (0 + 2) + RETRY_DELAY * (1 + 2)

\* rate-limited, rate-limited, then a valid response
C6_Witness ==
    /\ Len(hist) = 3 /\ IsRateLimited(hist[1]) /\ IsRateLimited(hist[2])
    /\ hist[3] = GoodResp /\ llm.outcome = "success"

AllRetryable(n) == \A k \in 1..n : Classify(hist[k]) \in RetryClasses

\* C7: the three failure classes share one budget: call_llm never sends more
\* than MAX_RETRIES requests; while only failures of the three classes have
\* come it goes on until exactly MAX_RETRIES requests are sent and then
\* returns the record "Failed after MAX_RETRIES attempts"; the first valid
\* response ends it with the success record.
C7_SharedBudget ==
    /\ llm.requests = Len(hist)
    /\ llm.requests <= MAX_RETRIES
    /\ AllRetryable(Len(hist)) =>
          IF Len(hist) < MAX_RETRIES
          THEN llm.outcome = "running"
          ELSE /\ llm.outcome = "exhausted"
               /\ llm.requests = MAX_RETRIES
               /\ call_llm_result(llm) = [error |-> TRUE, attempts |-> MAX_RETRIES]
    /\ (/\ Len(hist) >= 1
        /\ AllRetryable(Len(hist) - 1)
        /\ Classify(hist[Len(hist)]) = "return") =>
           /\ llm.outcome = "success"
           /\ call_llm_result(llm).attempts = 0

\* the budget was spent on one failure of each class
C7_Witness ==
    /\ Len(hist) = MAX_RETRIES /\ llm.outcome = "exhausted"
    /\ Classify(hist[1]) = "rate_limited"
    /\ Classify(hist[2]) = "JSONDecodeError"
    /\ Classify(hist[3]) = "RequestException"

\* C8: the full run on the five-folder corpus ends with skipped=2, no_pdf=1,
\* too_short=1, success+error=1 and exactly two new analysis.json files.
C8_EndToEndStats ==
    (runNo = 1 /\ full /\ NormalReturn) =>
        /\ stats.skipped = 2
        /\ stats.no_pdf = 1
        /\ stats.too_short = 1
        /\ stats.success + stats.error = 1
        /\ runWrites = 2

\* C9: on every string normalize_category (either copy) returns, without
\* raising, the uppercased first character of the trimmed input when that is
\* one of A-F and "Unknown" otherwise.
C9_CategoryClosure ==
    catOut # <<>> /\ catIn.t = "str" =>
        LET b    == Strip(catIn.s)
            want == IF b # <<>> /\ Upper(b[1]) \in CategoryLetters
                    THEN Upper(b[1]) ELSE "Unknown"
        IN  /\ catOut.sum \in CategoryLetters \cup {"Unknown"}
            /\ catOut.deep \in CategoryLetters \cup {"Unknown"}
            /\ catOut.sum = want
            /\ catOut.deep = want

\* a raw score that is no number: absent, null, or text such as "four"
NotNumeric(raw) == raw.t \in {"missing", "null"} \/ ~py_int(raw).ok

\* C10: both loaders give a record whose relevance_score is missing, null or
\* non-numeric the score 0, and no score-dependent aggregation step raises.
C10_ScoreCoercion ==
    agg # <<>> =>
        /\ \A k \in DOMAIN agg.loaded.results :
              LET r == agg.loaded.results[k]
              IN  NotNumeric(store[r.folder].relevance_score) => r.score = JInt(0)
        /\ ~agg.out.raised

\* a call of normalize_technique recorded in pout
IsTechniqueCall(k) == k \in DOMAIN pout /\ pout[k].fn = "normalize_technique"
IsMethodCall(k)    == k \in DOMAIN pout /\ pout[k].fn = "normalize_method"

\* C11: each of the 12 canonical labels of normalize_technique and each
\* canonical value of normalize_method is returned unchanged when it is
\* canonicalized, and canonicalizing what normalize_technique returned gives
\* the same label again.
C11_CanonicalFixedPoints ==
    /\ Cardinality(TechniqueLabels) = 12
    /\ \A k \in DOMAIN pout :
        /\ (IsTechniqueCall(k) /\ pout[k].arg \in TechniqueLabels)
               => pout[k].res = pout[k].arg
        /\ (IsMethodCall(k) /\ pout[k].arg \in MethodValues)
               => pout[k].res = pout[k].arg
        /\ \A j \in DOMAIN pout :
               (IsTechniqueCall(j) /\ IsTechniqueCall(k)
                    /\ pout[k].arg = pout[j].res)
                   => pout[k].res = pout[k].arg

\* a label that is not canonical is canonicalized and the result is
\* canonicalized again
C11_Witness ==
    /\ Len(pout) = 2
    /\ IsTechniqueCall(1) /\ IsTechniqueCall(2)
    /\ pout[1].arg = pin /\ pout[1].res # pin
    /\ pout[1].res \in TechniqueLabels
    /\ pout[2].arg = pout[1].res /\ pout[2].res = pout[1].res

\* the files of store that are ErrorRecords
ErrorFiles == {k \in DOMAIN store : store[k].error}

\* the loaded records that come from an AnalysisRecord
Successes(results) == SelectSeq(results, LAMBDA r : ~store[r.folder].error)

\* C12: when summarize.main saves its summary, an ErrorRecord is counted in
\* none of its statistics (total, category counts, score counts) and every
\* ErrorRecord is among the separately tracked failures.
C12_ErrorRecordsExcluded ==
    (agg # <<>> /\ agg.tool = "summarize" /\ ~agg.out.raised) =>
        /\ agg.summary.total = Len(Successes(agg.loaded.results))
        /\ agg.summary.primary_category_counts
               = primary(Successes(agg.loaded.results))
        /\ \A k \in ErrorFiles :
               \E j \in DOMAIN agg.loaded.errors : agg.loaded.errors[j] = k
        /\ agg.summary.parse_errors >= Cardinality(ErrorFiles)

\* summarize.main got as far as printing the crosstab
CrosstabPrinted ==
    agg # <<>> /\ agg.tool = "summarize" /\ agg.out.at # "relevance distribution"

\* the count of a category in the primary category distribution
PrimaryCount(cat) == counter_get(primary(agg.loaded.results), cat)

\* the columns 1..5 of a row of the crosstab, added up
ColumnSum(cat) == SumValues(agg.crosstab[cat].cols, ScoreColumns)

\* the loaded records of a category whose score is one of 1..5
InColumns(cat) ==
    {k \in DOMAIN agg.loaded.results :
        /\ agg.loaded.results[k].cat = cat
        /\ agg.loaded.results[k].score.t = "int"
        /\ agg.loaded.results[k].score.n \in ScoreColumns}

\* C13 as stated: for each of A-F the row total and the sum of the columns
\* 1..5 of the crosstab both equal the category's count in the primary
\* category distribution.
C13_RowAndColumnsMatchCount ==
    CrosstabPrinted =>
        \A cat \in CategoryLetters :
            /\ agg.crosstab[cat].total = PrimaryCount(cat)
            /\ ColumnSum(cat) = PrimaryCount(cat)

\* C13: whenever the crosstab is printed, the row total of each of A-F
\* equals the category's count in the primary category distribution; the
\* columns 1..5 add up to the number of the category's records whose score
\* is one of 1..5, which is at most the row total.
C13_RowTotalMatchesCount ==
    CrosstabPrinted =>
        \A cat \in CategoryLetters :
            /\ agg.crosstab[cat].total = PrimaryCount(cat)
            /\ ColumnSum(cat) = Cardinality(InColumns(cat))
            /\ ColumnSum(cat) <= agg.crosstab[cat].total

\* category E has two records, one with a score in 1..5 and one without
C13_Witness ==
    /\ CrosstabPrinted
    /\ agg.crosstab["E"].total = 2
    /\ ColumnSum("E") = 1
    /\ PrimaryCount("E") = 2

OutlineWritten == agg # <<>> /\ agg.tool = "deep" /\ ~agg.out.raised

\* how often a technique is the heading of a numbered section, and how
\* often it is a line of the singleton listing
SectionsOf(technique) ==
    Cardinality({i \in DOMAIN agg.outline.sections :
                    agg.outline.sections[i].technique = technique})
SinglesOf(technique) ==
    Cardinality({i \in DOMAIN agg.outline.singles :
                    agg.outline.singles[i].technique = technique})

\* the places (group, position) a folder is filed at
PlacesOf(folder) ==
    {<<i, j>> \in (DOMAIN agg.outline.groups) \X (1..(NumPapers + 1)) :
        /\ j \in DOMAIN agg.outline.groups[i].papers
        /\ agg.outline.groups[i].papers[j] = folder}

\* C14: a technique group with one record has no numbered section and one
\* line in the singleton listing; a group with two or more records has one
\* numbered section and no line in the singleton listing; every D/E record
\* is in exactly one group, the one of its canonicalized first technique or
\* "Other / Untagged" when it has none, and no other record is in a group.
C14_GroupingThreshold ==
    OutlineWritten =>
        /\ \A i \in DOMAIN agg.outline.groups :
              LET g == agg.outline.groups[i]
              IN  /\ Len(g.papers) = 1 =>
                        SectionsOf(g.technique) = 0 /\ SinglesOf(g.technique) = 1
                  /\ Len(g.papers) >= 2 =>
                        SectionsOf(g.technique) = 1 /\ SinglesOf(g.technique) = 0
        /\ \A i \in DOMAIN agg.outline.sections :
              agg.outline.sections[i].num = i
        /\ \A k \in DOMAIN agg.loaded.results :
              LET r == agg.loaded.results[k]
              IN  IF r.cat \in {"D", "E"}
                  THEN /\ Cardinality(PlacesOf(r.folder)) = 1
                       /\ \A pl \in PlacesOf(r.folder) :
                              agg.outline.groups[pl[1]].technique
                                  = IF r.tech.t = "missing" \/ r.tech.s = <<>>
                                    THEN Untagged
                                    ELSE normalize_technique(r.tech.s[1])
                  ELSE PlacesOf(r.folder) = {}

\* two records share a canonical technique and get section 5.1, a third is
\* alone in its group and is listed under "Other Methods" as 5.2
C14_Witness ==
    /\ OutlineWritten
    /\ Len(agg.outline.sections) = 1
    /\ Len(agg.outline.sections[1].papers) = 2
    /\ agg.outline.sections[1].technique = Chars("Physics-Informed Methods / PINN")
    /\ Len(agg.outline.singles) = 1
    /\ agg.outline.singles[1].technique = Untagged
    /\ agg.outline.other = 2

\* C15: a JSON object inside a fence whose opening marker, with or without
\* a language tag, has the first line to itself and whose closing marker
\* ends the content is parsed as the object alone; content without a fence
\* is parsed as it is, trimmed.
C15_FenceStripping ==
    (pout # <<>> /\ pin.shape \in {"fenced", "plain"}) =>
        /\ pout.content = Strip(pin.inner)
        /\ pout.result.ok
        /\ pout.result = json_loads(pin.inner)
        /\ pin.shape = "plain" => pout.content = Strip(pin.body)

\* the content is the fence with the tag json, a newline, {"a":1}, a newline
\* and the closing fence, and {"a":1} is what was parsed
C15_Witness ==
    /\ pout # <<>>
    /\ pin.body = Fence \o Chars("json") \o <<"\n">> \o Chars("{\"a\":1}")
                      \o <<"\n">> \o Fence
    /\ pout.content = Chars("{\"a\":1}")
    /\ pout.result.ok

\* C16: a run of main with --dry-run returns after the counts (or at the
\* API key check): it leaves every folder as it was, writes no result, makes
\* no request, calls neither process_one nor call_llm and never enters the
\* processing loop.
C16_DryRunChangesNothing ==
    [][/\ fs' = fs
       /\ writes' = writes
       /\ pc' \in {"dry", "exit1"}
       /\ pending' = <<>>
       /\ requests' = 0 /\ llmCalls' = 0 /\ runWrites' = 0
       /\ ~last'.called
       /\ stats' = ZeroStats]_vars

\* a dry run has returned on a corpus that has a paper waiting for analysis
C16_Witness ==
    /\ pc = "dry"
    /\ \E i \in DOMAIN fs : fs[i].pdf /\ fs[i].result = NoResult
    /\ \A i \in DOMAIN fs : writes[i] = 0
    /\ requests = 0

\* the blocks of normalize_technique with a keyword in the lowercased text
MatchingRules(text) ==
    {k \in DOMAIN TechniqueRules :
        \E j \in DOMAIN TechniqueRules[k].kws :
            Contains(Chars(TechniqueRules[k].kws[j]), LowerStr(text))}

\* C17: when the lowercased argument contains keywords of one or more
\* blocks, normalize_technique returns the label of the block that comes
\* first in the source order, however many later blocks match; two calls
\* with the same argument return the same label.
C17_FirstMatchWins ==
    \A k \in DOMAIN pout :
        IsTechniqueCall(k) =>
            /\ MatchingRules(pout[k].arg) # {} =>
                  \E first \in MatchingRules(pout[k].arg) :
                      /\ \A other \in MatchingRules(pout[k].arg) : first <= other
                      /\ pout[k].res = Chars(TechniqueRules[first].label)
            /\ \A j \in DOMAIN pout :
                  (IsTechniqueCall(j) /\ pout[j].arg = pout[k].arg)
                      => pout[j].res = pout[k].res

\* the label "GAN bayesian" has keywords of the blocks 10 and 12: both calls
\* return the label of block 10
C17_Witness ==
    /\ pin = Chars("GAN") \o Chars("bayesian")
    /\ Cardinality(MatchingRules(pin)) = 2
    /\ Len(pout) = 2
    /\ IsTechniqueCall(1) /\ IsTechniqueCall(2)
    /\ pout[1].arg = pin /\ pout[2].arg = pin
    /\ pout[1].res = Chars("Generative Models (GAN/VAE/Diffusion)")
    /\ pout[2].res = pout[1].res

\* res is text without the whitespace at its two ends, nothing else changed
TrimmedOf(text, res) ==
    \E a \in 0..Len(text), b \in 0..Len(text) :
        /\ a + b <= Len(text)
        /\ \A i \in 1..a : IsSpace(text[i])
        /\ \A i \in (Len(text) - b + 1)..Len(text) : IsSpace(text[i])
        /\ res = SubSeq(text, a + 1, Len(text) - b)
        /\ res # <<>> => ~IsSpace(res[1]) /\ ~IsSpace(res[Len(res)])

C19_AtomicClaim ==
    (workers # <<>>) =>
        /\ llmCalls <= 1
        /\ \A i \in DOMAIN writes : writes[i] <= 1

\* C20: every wait of call_llm is followed by another request: once call_llm
\* has returned, each attempt that slept was followed by a later attempt, so
\* the attempt that used up the budget did not sleep.
C20_NoWastedWait ==
    llm.outcome # "running" =>
        \A k \in DOMAIN llm.waits : llm.waits[k] > 0 => k < llm.requests

====
